---- MODULE Spec2Model ----
(***************************************************************************)
(* Model of nrewebservices.ldbws.webservice.Session: construction of the   *)
(* session (__init__) and the board query (get_station_board).  The SOAP   *)
(* library and the remote service are the environment: a descriptor fetch  *)
(* and a remote call either answer or raise a fault.                       *)
(*                                                                         *)
(* Python values: an optional argument is a sequence, <<>> for None and    *)
(* <<v>> for the value v, so that None, "" and 0 stay distinct.            *)
(***************************************************************************)
EXTENDS Integers, Sequences, FiniteSets

VARIABLES env, session, ctor, nCalls, nValid, nRemote, nBoards, lastCall, wire

vars == <<env, session, ctor, nCalls, nValid, nRemote, nBoards, lastCall, wire>>

\* ---------------------------------------------------------------- bounds
\* calls of get_station_board on one session, over the full argument set
MaxCalls == 1
\* calls of get_station_board on one session, over the short argument set
MaxSeqCalls == 3

\* ------------------------------------------------------ program constants
DefaultTimeout == 5
DefaultRows == 10

\* ------------------------------------------------------------ Python values
None == <<>>
Some(v) == <<v>>

\* truth value of an optional string: None and "" are both false
Truthy(x) == x # None /\ x[1] # ""

\* ------------------------------------------------------------ input domains
WsdlArgs == {None, Some(""), Some("wsdl1")}
ApiKeyArgs == {None, Some(""), Some("key1"), Some("key2")}
EnvWsdlValues == {None, Some("wsdlE")}
EnvApiKeyValues == {None, Some("keyE")}
FetchOutcomes == {"ok", "URLError"}

CrsArgs == {"PAD", "RDG"}
FromFilterArgs == {None, Some(""), Some("RDG")}
ToFilterArgs == {None, Some(""), Some("RDG"), Some("EUS")}

Faults == {"timeout", "malformed", "WebFault"}

\* the arguments of one get_station_board call
BoardArgs ==
  [crs : CrsArgs, rows : {DefaultRows},
   include_departures : BOOLEAN, include_arrivals : BOOLEAN,
   from_filter_crs : FromFilterArgs, to_filter_crs : ToFilterArgs,
   time_offset : {None, Some(0)}, time_window : {None, Some(0)}]
  \cup
  [crs : CrsArgs, rows : {5},
   include_departures : BOOLEAN, include_arrivals : BOOLEAN,
   from_filter_crs : {None}, to_filter_crs : {None, Some("RDG")},
   time_offset : {Some(-30)}, time_window : {Some(60)}]

BoardResponses == {"response", "WebFault"}

\* a short argument set for sequences of calls
SeqArgs ==
  [crs : {"PAD"}, rows : {DefaultRows},
   include_departures : BOOLEAN, include_arrivals : {FALSE},
   from_filter_crs : {None}, to_filter_crs : {None, Some("RDG")},
   time_offset : {None, Some(0)}, time_window : {None, Some(60)}]

SeqResponses == {"response"} \cup Faults

\* ------------------------------------------------------------ module scope
\* the names bound at module level by the imports and assignments
ModuleNames == {"StationBoard", "Client", "Element", "logging", "log", "LDBWS_NAMESPACE", "Session"}

\* os.environ[name]: evaluating the name os comes first
EnvironLookup(e, name) ==
  IF "os" \notin ModuleNames THEN [exc |-> "NameError", value |-> None]
  ELSE IF e[name] = None THEN [exc |-> "KeyError", value |-> None]
  ELSE [exc |-> "", value |-> e[name]]

\* try: ... except AttributeError: raise ValueError(...)
ExceptAttributeError(r) ==
  IF r.exc = "AttributeError" THEN [exc |-> "ValueError", value |-> None] ELSE r

\* ------------------------------------------------------------ __init__
NoSession == [built |-> FALSE, wsdl |-> None, timeout |-> 0, service |-> "", soapheaders |-> <<>>]

AccessTokenNoText(api_key) ==
  [name |-> "AccessToken", child |-> [name |-> "TokenValue", text |-> None]]

\* the AccessToken element with its TokenValue child
AccessToken(api_key) ==
  [name |-> "AccessToken", child |-> [name |-> "TokenValue", text |-> api_key]]

ResolveWsdl(wsdl, e) ==
  IF ~Truthy(wsdl) THEN ExceptAttributeError(EnvironLookup(e, "NRE_LDBWS_WSDL"))
  ELSE [exc |-> "", value |-> wsdl]

ResolveApiKey(api_key, e) ==
  IF ~Truthy(api_key) THEN ExceptAttributeError(EnvironLookup(e, "NRE_LDBWS_API_KEY"))
  ELSE [exc |-> "", value |-> api_key]

\* Client(wsdl), set_options, service lookup, authentication header
BuildClient(wsdl, api_key, timeout, fetch) ==
  IF fetch # "ok" THEN [exc |-> fetch, fetches |-> 1, session |-> NoSession]
  ELSE [exc |-> "", fetches |-> 1,
        session |-> [built |-> TRUE, wsdl |-> wsdl, timeout |-> timeout,
                     service |-> "LDBServiceSoap",
                     soapheaders |-> <<AccessToken(api_key)>>]]

Session__init__(wsdl, api_key, timeout, e, fetch) ==
  LET w == ResolveWsdl(wsdl, e) IN
  IF w.exc # "" THEN [exc |-> w.exc, fetches |-> 0, session |-> NoSession]
  ELSE LET k == ResolveApiKey(api_key, e) IN
       IF k.exc # "" THEN [exc |-> k.exc, fetches |-> 0, session |-> NoSession]
       ELSE BuildClient(w.value, k.value, timeout, fetch)

\* ------------------------------------------------------------ get_station_board
EmptyMap == [x \in {} |-> 0]

\* params[k] = v
SetItem(p, k, v) == [x \in DOMAIN p \cup {k} |-> IF x = k THEN v ELSE p[x]]

SelectQueryNoValidation(include_departures, include_arrivals) ==
  IF include_departures /\ include_arrivals THEN "GetArrivalDepartureBoard"
  ELSE IF include_arrivals THEN "GetArrivalBoard"
  ELSE "GetDepartureBoard"

SelectQueryDeparturesFirst(include_departures, include_arrivals) ==
  IF include_departures THEN "GetDepartureBoard"
  ELSE IF include_departures /\ include_arrivals THEN "GetArrivalDepartureBoard"
  ELSE IF include_arrivals THEN "GetArrivalBoard"
  ELSE "ValueError"

\* the SOAP query method, or ValueError
SelectQuery(include_departures, include_arrivals) ==
  IF include_departures /\ include_arrivals THEN "GetArrivalDepartureBoard"
  ELSE IF include_departures THEN "GetDepartureBoard"
  ELSE IF include_arrivals THEN "GetArrivalBoard"
  ELSE "ValueError"

LeakedParams == wire.params

\* params = {}
NewParams == EmptyMap

FilterParamsFromWins(p, a) ==
  IF Truthy(a.from_filter_crs)
    THEN SetItem(SetItem(p, "filterCrs", a.from_filter_crs[1]), "filterType", "from")
  ELSE IF Truthy(a.to_filter_crs)
    THEN SetItem(SetItem(p, "filterCrs", a.to_filter_crs[1]), "filterType", "to")
  ELSE p

FilterParams(p, a) ==
  IF Truthy(a.to_filter_crs)
    THEN SetItem(SetItem(p, "filterCrs", a.to_filter_crs[1]), "filterType", "to")
  ELSE IF Truthy(a.from_filter_crs)
    THEN SetItem(SetItem(p, "filterCrs", a.from_filter_crs[1]), "filterType", "from")
  ELSE p

\* number of warnings logged by the filter step
FilterWarnings(a) ==
  IF Truthy(a.to_filter_crs) /\ Truthy(a.from_filter_crs) THEN 1 ELSE 0

TimeParamsTruthy(p, a) ==
  LET p1 == IF a.time_offset # None /\ a.time_offset[1] # 0
              THEN SetItem(p, "timeOffset", a.time_offset[1]) ELSE p
  IN IF a.time_window # None /\ a.time_window[1] # 0
       THEN SetItem(p1, "timeWindow", a.time_window[1]) ELSE p1

TimeParams(p, a) ==
  LET p1 == IF a.time_offset # None THEN SetItem(p, "timeOffset", a.time_offset[1]) ELSE p
  IN IF a.time_window # None THEN SetItem(p1, "timeWindow", a.time_window[1]) ELSE p1

BuildParams(a) ==
  TimeParams(FilterParams(SetItem(SetItem(NewParams, "crs", a.crs), "numRows", a.rows), a), a)

Request(self, query, params) ==
  [op |-> query, params |-> params, soapheaders |-> self.soapheaders]

DoQueryRetry(self, query, params, resp) ==
  IF resp \in Faults
    THEN [outcome |-> resp, requests |-> <<Request(self, query, params), Request(self, query, params)>>,
          boards |-> 0]
    ELSE [outcome |-> "StationBoard", requests |-> <<Request(self, query, params)>>, boards |-> 1]

DoQuerySwallow(self, query, params, resp) ==
  [outcome |-> "StationBoard", requests |-> <<Request(self, query, params)>>, boards |-> 1]

\* soap_response = query(**params); return StationBoard(soap_response)
DoQuery(self, query, params, resp) ==
  IF resp \in Faults
    THEN [outcome |-> resp, requests |-> <<Request(self, query, params)>>, boards |-> 0]
    ELSE [outcome |-> "StationBoard", requests |-> <<Request(self, query, params)>>, boards |-> 1]

get_station_board(self, a, resp) ==
  LET query == SelectQuery(a.include_departures, a.include_arrivals) IN
  IF query = "ValueError"
    THEN [outcome |-> "ValueError", requests |-> <<>>, boards |-> 0, warnings |-> 0]
    ELSE LET r == DoQuery(self, query, BuildParams(a), resp) IN
         [outcome |-> r.outcome, requests |-> r.requests, boards |-> r.boards,
          warnings |-> FilterWarnings(a)]

\* ------------------------------------------------------------ state machine
NoCtor == [called |-> FALSE, wsdl |-> None, api_key |-> None, timeout |-> 0, exc |-> "", fetches |-> 0]

NoArgs ==
  [crs |-> "PAD", rows |-> DefaultRows, include_departures |-> TRUE, include_arrivals |-> FALSE,
   from_filter_crs |-> None, to_filter_crs |-> None, time_offset |-> None, time_window |-> None]

NoCall == [args |-> NoArgs, outcome |-> "", remote |-> "none", sent |-> 0, boards |-> 0, warnings |-> 0]

NoWire == [op |-> "", params |-> EmptyMap, soapheaders |-> <<>>]

Init ==
  /\ env \in [NRE_LDBWS_WSDL : EnvWsdlValues, NRE_LDBWS_API_KEY : EnvApiKeyValues]
  /\ session = NoSession
  /\ ctor = NoCtor
  /\ nCalls = 0
  /\ nValid = 0
  /\ nRemote = 0
  /\ nBoards = 0
  /\ lastCall = NoCall
  /\ wire = NoWire

\* Session(wsdl, api_key, timeout)
Construct ==
  /\ ~session.built
  /\ \E wsdl \in WsdlArgs, api_key \in ApiKeyArgs, fetch \in FetchOutcomes :
       LET r == Session__init__(wsdl, api_key, DefaultTimeout, env, fetch) IN
         /\ session' = r.session
         /\ ctor' = [called |-> TRUE, wsdl |-> wsdl, api_key |-> api_key,
                     timeout |-> DefaultTimeout, exc |-> r.exc, fetches |-> r.fetches]
  /\ UNCHANGED <<env, nCalls, nValid, nRemote, nBoards, lastCall, wire>>

\* session.get_station_board(...) with arguments from Args, the remote
\* service answering with one of Resps
GetStationBoardOn(Args, Resps, Max) ==
  /\ session.built
  /\ nCalls < Max
  /\ \E a \in Args, resp \in Resps :
       LET r == get_station_board(session, a, resp)
           n == Len(r.requests)
       IN
         /\ lastCall' = [args |-> a, outcome |-> r.outcome,
                         remote |-> IF n = 0 THEN "none" ELSE resp,
                         sent |-> n, boards |-> r.boards, warnings |-> r.warnings]
         /\ wire' = IF n = 0 THEN wire ELSE r.requests[n]
         /\ nRemote' = nRemote + n
         /\ nBoards' = nBoards + r.boards
         /\ nValid' = nValid + (IF a.include_departures \/ a.include_arrivals THEN 1 ELSE 0)
  /\ nCalls' = nCalls + 1
  /\ UNCHANGED <<env, session, ctor>>

GetStationBoard == GetStationBoardOn(BoardArgs, BoardResponses, MaxCalls)

GetStationBoardSeq == GetStationBoardOn(SeqArgs, SeqResponses, MaxSeqCalls)

Next == Construct \/ GetStationBoard

Spec == Init /\ [][Next]_vars

NextSeq == Construct \/ GetStationBoardSeq

SpecSeq == Init /\ [][NextSeq]_vars

\* ------------------------------------------------------------ properties
\* the call recorded in lastCall reached the remote service
Sent == nCalls > 0 /\ lastCall.sent > 0

\* an optional station code counts as supplied when the code takes it as given:
\* a non-empty string
Supplied(x) == Truthy(x)

\* the keys of the mapping that carry strings
StrKeys(p) == DOMAIN p \cap {"crs", "filterCrs", "filterType"}

\* C1: a call with include_departures and include_arrivals both false fails
\* with ValueError, and that invocation sends no request to the remote service.
C1_NoFlagsFailBeforeNetwork ==
  (nCalls > 0 /\ ~lastCall.args.include_departures /\ ~lastCall.args.include_arrivals)
    => (lastCall.outcome = "ValueError" /\ lastCall.sent = 0 /\ lastCall.remote = "none")

C1_Witness ==
  /\ nCalls > 0
  /\ ~lastCall.args.include_departures /\ ~lastCall.args.include_arrivals
  /\ Supplied(lastCall.args.to_filter_crs)
  /\ lastCall.args.time_offset # None
  /\ lastCall.outcome = "ValueError"

\* C2: the remote operation is fixed by the two inclusion flags alone: both true
\* gives GetArrivalDepartureBoard, departures only GetDepartureBoard, arrivals
\* only GetArrivalBoard, whatever the other arguments are.
C2_OperationByFlags ==
  nCalls > 0 =>
    LET a == lastCall.args IN
      /\ (a.include_departures /\ a.include_arrivals)
           => (lastCall.sent > 0 /\ wire.op = "GetArrivalDepartureBoard")
      /\ (a.include_departures /\ ~a.include_arrivals)
           => (lastCall.sent > 0 /\ wire.op = "GetDepartureBoard")
      /\ (~a.include_departures /\ a.include_arrivals)
           => (lastCall.sent > 0 /\ wire.op = "GetArrivalBoard")

C2_Witness ==
  /\ Sent
  /\ lastCall.args.include_departures /\ lastCall.args.include_arrivals
  /\ Supplied(lastCall.args.from_filter_crs)
  /\ lastCall.args.time_window # None
  /\ lastCall.args.crs = "RDG"
  /\ wire.op = "GetArrivalDepartureBoard"

C4_MissingWsdlValueError ==
  (ctor.called /\ ~Supplied(ctor.wsdl) /\ env.NRE_LDBWS_WSDL = None)
    => (ctor.exc = "ValueError" /\ ctor.fetches = 0 /\ ~session.built)

\* C5 as stated: a construction with an endpoint location available, no api_key
\* argument and NRE_LDBWS_API_KEY unset fails with ValueError, and no SOAP
\* client is built.
C5_MissingApiKeyValueError ==
  (/\ ctor.called
   /\ (Supplied(ctor.wsdl) \/ env.NRE_LDBWS_WSDL # None)
   /\ ~Supplied(ctor.api_key) /\ env.NRE_LDBWS_API_KEY = None)
    => (ctor.exc = "ValueError" /\ ctor.fetches = 0 /\ ~session.built)

\* C6: the mapping sent has exactly the keys crs and numRows (the arguments
\* unchanged), filterCrs and filterType together iff a filter station was
\* supplied ("to" when to_filter_crs is the filter in effect, "from" when only
\* from_filter_crs is supplied), timeOffset iff time_offset is not None and
\* timeWindow iff time_window is not None, the value 0 included.
C6_ExactKeySet ==
  Sent =>
    LET p == wire.params
        a == lastCall.args
        filter == IF Supplied(a.to_filter_crs) \/ Supplied(a.from_filter_crs)
                    THEN {"filterCrs", "filterType"} ELSE {}
        offset == IF a.time_offset # None THEN {"timeOffset"} ELSE {}
        window == IF a.time_window # None THEN {"timeWindow"} ELSE {}
    IN /\ DOMAIN p = {"crs", "numRows"} \cup filter \cup offset \cup window
       /\ p["crs"] = a.crs
       /\ p["numRows"] = a.rows
       /\ Supplied(a.to_filter_crs)
            => (p["filterCrs"] = a.to_filter_crs[1] /\ p["filterType"] = "to")
       /\ (~Supplied(a.to_filter_crs) /\ Supplied(a.from_filter_crs))
            => (p["filterCrs"] = a.from_filter_crs[1] /\ p["filterType"] = "from")
       /\ a.time_offset # None => p["timeOffset"] = a.time_offset[1]
       /\ a.time_window # None => p["timeWindow"] = a.time_window[1]

C6_Witness ==
  /\ Sent
  /\ lastCall.args.time_offset = Some(0)
  /\ lastCall.args.time_window = Some(0)
  /\ lastCall.args.to_filter_crs = Some("")
  /\ lastCall.args.from_filter_crs = Some("RDG")
  /\ DOMAIN wire.params = {"crs", "numRows", "filterCrs", "filterType", "timeOffset", "timeWindow"}
  /\ wire.params["filterType"] = "from"

\* C7: over any sequence of calls on one session, the number of requests sent
\* equals the number of calls with at least one inclusion flag set.
C7_OneRequestPerValidCall ==
  /\ nRemote = nValid
  /\ nCalls > 0 => lastCall.sent = (IF lastCall.outcome = "ValueError" THEN 0 ELSE 1)

C7_Witness ==
  /\ nCalls >= 3
  /\ nValid = 2
  /\ nRemote = 2
  /\ lastCall.remote \in Faults

\* C8: every request sent through a constructed session carries the
\* AccessToken/TokenValue header holding the token the session was built with.
SessionToken ==
  IF Supplied(ctor.api_key) THEN ctor.api_key ELSE env.NRE_LDBWS_API_KEY

C8_TokenOnEveryRequest ==
  nRemote > 0 =>
    /\ Len(wire.soapheaders) = 1
    /\ wire.soapheaders[1].name = "AccessToken"
    /\ wire.soapheaders[1].child.name = "TokenValue"
    /\ wire.soapheaders[1].child.text = SessionToken

C8_Witness ==
  /\ nRemote >= 2
  /\ ctor.api_key = Some("key2")
  /\ wire.soapheaders[1].child.text = Some("key2")

\* C9: when the remote call raises a fault, that fault is the outcome of
\* get_station_board, the request is not repeated and no StationBoard is built.
C9_FaultPropagates ==
  /\ (nCalls > 0 /\ lastCall.remote \in Faults)
       => (lastCall.outcome = lastCall.remote /\ lastCall.boards = 0 /\ lastCall.sent = 1)
  /\ nBoards <= nRemote
  /\ (nCalls > 0 /\ lastCall.remote \in Faults) => nBoards < nRemote

C9_Witness ==
  /\ nCalls > 0
  /\ lastCall.remote = "timeout"
  /\ lastCall.outcome = "timeout"
  /\ nBoards = 0

\* C10: after any sequence of calls the session holds the endpoint, service
\* handle, timeout and token it was constructed with, and the mapping sent by a
\* call holds only keys and values that come from that call's own arguments.
C10_NoCrossCallState ==
  /\ session.built =>
       /\ ctor.called /\ ctor.exc = ""
       /\ session.wsdl = (IF Supplied(ctor.wsdl) THEN ctor.wsdl ELSE env.NRE_LDBWS_WSDL)
       /\ session.timeout = ctor.timeout
       /\ session.service = "LDBServiceSoap"
       /\ Len(session.soapheaders) = 1
       /\ session.soapheaders[1].child.text = SessionToken
  /\ nCalls > 0 => session.built
  /\ Sent =>
       LET p == wire.params
           a == lastCall.args
       IN /\ "filterCrs" \in DOMAIN p
               => p["filterCrs"] \in {a.from_filter_crs[i] : i \in DOMAIN a.from_filter_crs}
                                     \cup {a.to_filter_crs[i] : i \in DOMAIN a.to_filter_crs}
          /\ "filterType" \in DOMAIN p
               => (a.from_filter_crs # None \/ a.to_filter_crs # None)
          /\ "timeOffset" \in DOMAIN p => a.time_offset = Some(p["timeOffset"])
          /\ "timeWindow" \in DOMAIN p => a.time_window = Some(p["timeWindow"])

C10_Witness ==
  /\ nCalls >= 3
  /\ nRemote >= 2
  /\ Sent
  /\ DOMAIN wire.params = {"crs", "numRows"}
  /\ nBoards >= 1
  /\ nBoards < nRemote

====
